---- MODULE Spec2Model ----
(***************************************************************************)
(* Model of src/tradingView.py: TradingViewClient, a WebSocket client      *)
(* that subscribes to one symbol's last price and reconnects with          *)
(* exponential backoff.                                                    *)
(*                                                                         *)
(* Text is modelled character by character: a Python str is a sequence of  *)
(* one-character strings, so that split("~m~"), len(), json.dumps and      *)
(* json.loads are computed the way Python computes them.  The control      *)
(* characters are the tokens "<b>", "<f>", "<n>", "<r>", "<t>", and "<e9>" *)
(* stands for the non-ASCII letter U+00E9.                                 *)
(***************************************************************************)
EXTENDS Integers, Sequences, FiniteSets, TLC

(***************************************************************************)
(* Bounds of the model.                                                    *)
(***************************************************************************)
\* number of letters after "qs_" in a session id (the code uses 12)
SidLen == 1
\* the attempt counter saturates here
MaxAttempts == 10
\* most frames coalesced into one inbound transport message
MaxFrames == 2
\* longest method string of the encode/decode round trip
MaxLen == 2
\* the counter of resolver calls saturates here
MaxLookups == 2

(***************************************************************************)
(* Program constants.                                                      *)
(***************************************************************************)
BACKOFF_MAX == 300

QUOTE_CREATE_SESSION == <<"q","u","o","t","e","_","c","r","e","a","t","e","_","s","e","s","s","i","o","n">>
QUOTE_SET_FIELDS == <<"q","u","o","t","e","_","s","e","t","_","f","i","e","l","d","s">>
QUOTE_ADD_SYMBOLS == <<"q","u","o","t","e","_","a","d","d","_","s","y","m","b","o","l","s">>
QSD == <<"q","s","d">>
LP == <<"l","p">>
DELIM == <<"~","m","~">>
HANDSHAKE == <<"~","h","~">>
SID_PREFIX == <<"q","s","_">>

(***************************************************************************)
(* Python str primitives.                                                  *)
(***************************************************************************)
Min(a, b) == IF a <= b THEN a ELSE b

DIGITS == <<"0","1","2","3","4","5","6","7","8","9">>
IsDigit(c) == \E d \in 1..10 : DIGITS[d] = c
DigitVal(c) == (CHOOSE d \in 1..10 : DIGITS[d] = c) - 1

LOWERCASE == <<"a","b","c","d","e","f","g","h","i","j","k","l","m","n","o","p","q","r","s","t","u","v","w","x","y","z">>
UPPERCASE == <<"A","B","C","D","E","F","G","H","I","J","K","L","M","N","O","P","Q","R","S","T","U","V","W","X","Y","Z">>

\* str.upper() on one character
UpperChar(c) ==
  IF \E i \in 1..26 : LOWERCASE[i] = c
  THEN UPPERCASE[CHOOSE i \in 1..26 : LOWERCASE[i] = c]
  ELSE c

\* str.upper()
Upper(s) == [i \in 1..Len(s) |-> UpperChar(s[i])]

\* the character at position i, or "" past the end
At(s, i) == IF i >= 1 /\ i <= Len(s) THEN s[i] ELSE ""

\* s[i:] with a 1-based i
From(s, i) == IF i > Len(s) THEN <<>> ELSE SubSeq(s, i, Len(s))

\* str.startswith(p)
StartsWith(s, p) == Len(s) >= Len(p) /\ SubSeq(s, 1, Len(p)) = p

WHITESPACE == {" ", "<t>", "<n>", "<r>", "<f>"}

RECURSIVE LStrip(_)
LStrip(s) == IF s # <<>> /\ s[1] \in WHITESPACE THEN LStrip(Tail(s)) ELSE s

RECURSIVE RStrip(_)
RStrip(s) ==
  IF s # <<>> /\ s[Len(s)] \in WHITESPACE THEN RStrip(SubSeq(s, 1, Len(s) - 1)) ELSE s

\* str.strip()
Strip(s) == RStrip(LStrip(s))

\* str.find(d): first 1-based position of d in s, 0 when absent
Find(s, d) ==
  LET hits == {i \in 1..(Len(s) - Len(d) + 1) : SubSeq(s, i, i + Len(d) - 1) = d}
  IN IF hits = {} THEN 0 ELSE CHOOSE i \in hits : \A j \in hits : i <= j

\* str.split(d) for a non-empty separator
RECURSIVE Split(_, _)
Split(s, d) ==
  LET i == Find(s, d)
  IN IF i = 0 THEN <<s>>
     ELSE <<SubSeq(s, 1, i - 1)>> \o Split(From(s, i + Len(d)), d)

\* str(n) for n >= 0
RECURSIVE IntToStr(_)
IntToStr(n) ==
  IF n < 10 THEN <<DIGITS[n + 1]>> ELSE IntToStr(n \div 10) \o <<DIGITS[(n % 10) + 1]>>

(***************************************************************************)
(* JSON values.  Every node has the same four fields, so that any two      *)
(* nodes can be compared: t is the Python type, s a text, n an integer,    *)
(* a the children.  A dict is the sequence of its items in insertion       *)
(* order, each item a "mem" node holding the key in s and the value in a.  *)
(***************************************************************************)
JStr(s) == [t |-> "str", s |-> s, n |-> 0, a |-> <<>>]
JInt(n) == [t |-> "int", s |-> <<>>, n |-> n, a |-> <<>>]
\* a float is kept as the text json.dumps writes for it
JFloat(s) == [t |-> "float", s |-> s, n |-> 0, a |-> <<>>]
JList(a) == [t |-> "list", s |-> <<>>, n |-> 0, a |-> a]
JMem(k, v) == [t |-> "mem", s |-> k, n |-> 0, a |-> <<v>>]
JDict(a) == [t |-> "dict", s |-> <<>>, n |-> 0, a |-> a]
JNone == [t |-> "None", s |-> <<>>, n |-> 0, a |-> <<>>]
JBool(b) == [t |-> "bool", s |-> <<>>, n |-> IF b THEN 1 ELSE 0, a |-> <<>>]

\* key in d
HasKey(d, k) == \E i \in 1..Len(d.a) : d.a[i].s = k

\* d[key] for a key that is present
DictGet(d, k) == d.a[CHOOSE i \in 1..Len(d.a) : d.a[i].s = k].a[1]

\* d[key] = v: a present key keeps its place, a new key goes last
DictSet(d, k, v) ==
  IF HasKey(d, k)
  THEN JDict([i \in 1..Len(d.a) |-> IF d.a[i].s = k THEN JMem(k, v) ELSE d.a[i]])
  ELSE JDict(Append(d.a, JMem(k, v)))

(***************************************************************************)
(* json.dumps(obj, separators=(",", ":")), with the default                *)
(* ensure_ascii=True.                                                      *)
(***************************************************************************)
CONTROL == {"<b>", "<f>", "<n>", "<r>", "<t>"}

\* the escapes of ensure_ascii=False: a non-ASCII character is written as
\* it is
EscapeCharRaw(c) ==
  CASE c = "\"" -> <<"\\", "\"">>
    [] c = "\\" -> <<"\\", "\\">>
    [] c = "<b>" -> <<"\\", "b">>
    [] c = "<f>" -> <<"\\", "f">>
    [] c = "<n>" -> <<"\\", "n">>
    [] c = "<r>" -> <<"\\", "r">>
    [] c = "<t>" -> <<"\\", "t">>
    [] OTHER -> <<c>>

\* the escape json.dumps writes for one character of a str
EscapeChar(c) ==
  CASE c = "\"" -> <<"\\", "\"">>
    [] c = "\\" -> <<"\\", "\\">>
    [] c = "<b>" -> <<"\\", "b">>
    [] c = "<f>" -> <<"\\", "f">>
    [] c = "<n>" -> <<"\\", "n">>
    [] c = "<r>" -> <<"\\", "r">>
    [] c = "<t>" -> <<"\\", "t">>
    [] c = "<e9>" -> <<"\\", "u", "0", "0", "e", "9">>
    [] OTHER -> <<c>>

RECURSIVE EscapeStr(_)
EscapeStr(s) == IF s = <<>> THEN <<>> ELSE EscapeChar(s[1]) \o EscapeStr(Tail(s))

RECURSIVE JsonDumps(_)
RECURSIVE DumpsJoin(_, _)
\* the items of a list or dict from position i on, separated by ","
DumpsJoin(a, i) ==
  IF i > Len(a) THEN <<>>
  ELSE (IF i > 1 THEN <<",">> ELSE <<>>) \o JsonDumps(a[i]) \o DumpsJoin(a, i + 1)

JsonDumps(v) ==
  CASE v.t = "str" -> <<"\"">> \o EscapeStr(v.s) \o <<"\"">>
    [] v.t = "int" -> IF v.n < 0 THEN <<"-">> \o IntToStr(0 - v.n) ELSE IntToStr(v.n)
    [] v.t = "float" -> v.s
    [] v.t = "list" -> <<"[">> \o DumpsJoin(v.a, 1) \o <<"]">>
    [] v.t = "dict" -> <<"{">> \o DumpsJoin(v.a, 1) \o <<"}">>
    [] v.t = "mem" -> <<"\"">> \o EscapeStr(v.s) \o <<"\"", ":">> \o JsonDumps(v.a[1])
    [] v.t = "bool" -> IF v.n = 1 THEN <<"t","r","u","e">> ELSE <<"f","a","l","s","e">>
    [] OTHER -> <<"n","u","l","l">>

(***************************************************************************)
(* json.loads(s): the strict decoder of the standard library.  A result    *)
(* is [ok, v, i]: whether a value was read, the value, and the position    *)
(* after it; ok = FALSE is json.JSONDecodeError.                           *)
(***************************************************************************)
JSON_WS == {" ", "<t>", "<n>", "<r>"}
HEX == {"0","1","2","3","4","5","6","7","8","9","a","b","c","d","e","f","A","B","C","D","E","F"}

Ok(v, i) == [ok |-> TRUE, v |-> v, i |-> i]
Fail == [ok |-> FALSE, v |-> JNone, i |-> 0]

RECURSIVE SkipWs(_, _)
SkipWs(s, i) == IF At(s, i) \in JSON_WS THEN SkipWs(s, i + 1) ELSE i

RECURSIVE ScanDigits(_, _)
\* the position after the run of digits that starts at i
ScanDigits(s, i) == IF IsDigit(At(s, i)) THEN ScanDigits(s, i + 1) ELSE i

RECURSIVE StrToInt(_)
StrToInt(s) ==
  IF s = <<>> THEN 0 ELSE 10 * StrToInt(SubSeq(s, 1, Len(s) - 1)) + DigitVal(s[Len(s)])

\* the character an escape \e stands for
Unescape(e) ==
  CASE e = "b" -> "<b>"
    [] e = "f" -> "<f>"
    [] e = "n" -> "<n>"
    [] e = "r" -> "<r>"
    [] e = "t" -> "<t>"
    [] OTHER -> e

\* the character of \uXXXX; code points outside the model's alphabet are
\* all read as "<u>"
CodePoint(h) ==
  IF Upper(h) = <<"0","0","E","9">> THEN "<e9>"
  ELSE IF Upper(h) = <<"0","0","7","E">> THEN "~"
  ELSE IF Upper(h) = <<"0","0","6","D">> THEN "m"
  ELSE "<u>"

RECURSIVE ScanString(_, _, _)
\* py_scanstring: s[j] is the first character after the opening quote
ScanString(s, j, acc) ==
  LET c == At(s, j) IN
  IF c = "" THEN Fail
  ELSE IF c = "\"" THEN Ok(JStr(acc), j + 1)
  ELSE IF c \in CONTROL THEN Fail
  ELSE IF c # "\\" THEN ScanString(s, j + 1, Append(acc, c))
  ELSE LET e == At(s, j + 1) IN
       IF e \in {"\"", "\\", "/", "b", "f", "n", "r", "t"}
       THEN ScanString(s, j + 2, Append(acc, Unescape(e)))
       ELSE IF e = "u" /\ j + 5 <= Len(s) /\ \A k \in (j + 2)..(j + 5) : s[k] \in HEX
       THEN ScanString(s, j + 6, Append(acc, CodePoint(SubSeq(s, j + 2, j + 5))))
       ELSE Fail

\* NUMBER_RE: (-?(?:0|[1-9]\d*))(\.\d+)?([eE][-+]?\d+)?
ParseNumber(s, i) ==
  LET j0 == IF At(s, i) = "-" THEN i + 1 ELSE i
      j1 == IF At(s, j0) = "0" THEN j0 + 1 ELSE ScanDigits(s, j0)
      j2 == IF At(s, j1) = "." /\ IsDigit(At(s, j1 + 1)) THEN ScanDigits(s, j1 + 1) ELSE j1
      k  == IF At(s, j2 + 1) \in {"+", "-"} THEN j2 + 2 ELSE j2 + 1
      j3 == IF At(s, j2) \in {"e", "E"} /\ IsDigit(At(s, k)) THEN ScanDigits(s, k) ELSE j2
  IN IF j1 = j0 THEN Fail
     ELSE IF j3 = j1
     THEN Ok(JInt(IF j0 > i THEN 0 - StrToInt(SubSeq(s, j0, j1 - 1))
                  ELSE StrToInt(SubSeq(s, j0, j1 - 1))), j1)
     ELSE Ok(JFloat(SubSeq(s, i, j3 - 1)), j3)

RECURSIVE ParseValue(_, _)
RECURSIVE ParseMembers(_, _, _)
RECURSIVE ParseItems(_, _, _)

\* JSONObject: s[j] is where the next key must start
ParseMembers(s, j, d) ==
  IF At(s, j) # "\"" THEN Fail
  ELSE LET key == ScanString(s, j + 1, <<>>) IN
  IF ~key.ok THEN Fail
  ELSE LET j2 == SkipWs(s, key.i) IN
  IF At(s, j2) # ":" THEN Fail
  ELSE LET val == ParseValue(s, SkipWs(s, j2 + 1)) IN
  IF ~val.ok THEN Fail
  ELSE LET d2 == DictSet(d, key.v.s, val.v)
           j4 == SkipWs(s, val.i) IN
  IF At(s, j4) = "}" THEN Ok(d2, j4 + 1)
  ELSE IF At(s, j4) = "," THEN ParseMembers(s, SkipWs(s, j4 + 1), d2)
  ELSE Fail

\* JSONArray: s[j] is where the next item must start
ParseItems(s, j, acc) ==
  LET val == ParseValue(s, j) IN
  IF ~val.ok THEN Fail
  ELSE LET j2 == SkipWs(s, val.i) IN
  IF At(s, j2) = "]" THEN Ok(JList(Append(acc, val.v)), j2 + 1)
  ELSE IF At(s, j2) = "," THEN ParseItems(s, SkipWs(s, j2 + 1), Append(acc, val.v))
  ELSE Fail

\* scanner.py_make_scanner._scan_once
ParseValue(s, i) ==
  LET c == At(s, i) IN
  CASE c = "\"" -> ScanString(s, i + 1, <<>>)
    [] c = "{" -> LET j == SkipWs(s, i + 1) IN
                  IF At(s, j) = "}" THEN Ok(JDict(<<>>), j + 1)
                  ELSE ParseMembers(s, j, JDict(<<>>))
    [] c = "[" -> LET j == SkipWs(s, i + 1) IN
                  IF At(s, j) = "]" THEN Ok(JList(<<>>), j + 1)
                  ELSE ParseItems(s, j, <<>>)
    [] c = "n" -> IF StartsWith(From(s, i), <<"n","u","l","l">>) THEN Ok(JNone, i + 4) ELSE Fail
    [] c = "t" -> IF StartsWith(From(s, i), <<"t","r","u","e">>)
                  THEN Ok(JBool(TRUE), i + 4) ELSE Fail
    [] c = "f" -> IF StartsWith(From(s, i), <<"f","a","l","s","e">>)
                  THEN Ok(JBool(FALSE), i + 5) ELSE Fail
    [] c = "N" -> IF StartsWith(From(s, i), <<"N","a","N">>)
                  THEN Ok(JFloat(<<"N","a","N">>), i + 3) ELSE Fail
    [] c = "I" -> IF StartsWith(From(s, i), <<"I","n","f","i","n","i","t","y">>)
                  THEN Ok(JFloat(<<"I","n","f","i","n","i","t","y">>), i + 8) ELSE Fail
    [] c = "-" /\ At(s, i + 1) = "I" ->
                  IF StartsWith(From(s, i), <<"-","I","n","f","i","n","i","t","y">>)
                  THEN Ok(JFloat(<<"-","I","n","f","i","n","i","t","y">>), i + 9) ELSE Fail
    [] OTHER -> ParseNumber(s, i)

\* json.loads: one value, white space allowed around it, nothing else
JsonLoads(s) ==
  LET r == ParseValue(s, SkipWs(s, 1)) IN
  IF r.ok /\ SkipWs(s, r.i) = Len(s) + 1 THEN r ELSE Fail

(***************************************************************************)
(* Python subscription obj[key], key a str or an int node.  A result is    *)
(* [ok, v, err]: err names the exception raised when ok is FALSE.          *)
(***************************************************************************)
Got(v) == [ok |-> TRUE, v |-> v, err |-> "none"]
Raised(err) == [ok |-> FALSE, v |-> JNone, err |-> err]

GetItem(obj, key) ==
  CASE obj.t = "dict" ->
         IF key.t = "str" /\ HasKey(obj, key.s) THEN Got(DictGet(obj, key.s))
         ELSE Raised("KeyError")
    [] obj.t = "list" ->
         IF key.t # "int" THEN Raised("TypeError")
         ELSE IF key.n >= 0 /\ key.n < Len(obj.a) THEN Got(obj.a[key.n + 1])
         ELSE Raised("IndexError")
    [] obj.t = "str" ->
         IF key.t # "int" THEN Raised("TypeError")
         ELSE IF key.n >= 0 /\ key.n < Len(obj.s) THEN Got(JStr(<<obj.s[key.n + 1]>>))
         ELSE Raised("IndexError")
    [] OTHER -> Raised("TypeError")

(***************************************************************************)
(* TradingViewClient: the static helpers.                                  *)
(***************************************************************************)
\* the letters a session id is drawn from (the code draws from a..z)
SidLetters == {"a", "b"}

\* _generate_session_id(length): the ids random.choice can produce
generate_session_id(length) == {SID_PREFIX \o s : s \in [1..length -> SidLetters]}

\* {"m": func, "p": params}
Envelope(func, params) == JDict(<<JMem(<<"m">>, JStr(func)), JMem(<<"p">>, JList(params))>>)

\* _wrap_message(func, params)
wrap_message(func, params) ==
  LET payload == JsonDumps(Envelope(func, params))
  IN DELIM \o IntToStr(Len(payload)) \o DELIM \o payload

(***************************************************************************)
(* on_message(ws, raw_msg).  The result is [events, raised]: the price     *)
(* lines logged, and the exception that leaves the handler ("none" when it *)
(* returns).                                                               *)
(***************************************************************************)
Returns(events) == [events |-> events, raised |-> "none"]
Raises(err) == [events |-> <<>>, raised |-> err]

\* the body of "if data.get('m') == 'qsd'", for a dict data
price_event(data) ==
  LET p == GetItem(data, JStr(<<"p">>)) IN
  IF ~p.ok THEN Raises(p.err)
  ELSE LET p1 == GetItem(p.v, JInt(1)) IN
  IF ~p1.ok THEN Raises(p1.err)
  ELSE LET symbol == GetItem(p1.v, JStr(<<"n">>)) IN
  IF ~symbol.ok THEN Raises(symbol.err)
  ELSE LET v == GetItem(p1.v, JStr(<<"v">>)) IN
  IF ~v.ok THEN Raises(v.err)
  ELSE LET price == GetItem(v.v, JStr(LP)) IN
  IF ~price.ok THEN Raises(price.err)
  ELSE Returns(<<[symbol |-> symbol.v, price |-> price.v]>>)

\* raw_msg.split("~m~")
parts(raw_msg) == Split(raw_msg, DELIM)

\* what the handler decodes: json.loads(parts[2]), ok = FALSE when the
\* message is dropped before or by the decoding
data(raw_msg) ==
  IF StartsWith(raw_msg, HANDSHAKE) \/ Strip(raw_msg) = <<>> THEN Fail
  ELSE IF Len(parts(raw_msg)) < 3 THEN Fail
  ELSE JsonLoads(parts(raw_msg)[3])

on_message(raw_msg) ==
  LET d == data(raw_msg) IN
  IF ~d.ok THEN Returns(<<>>)
  ELSE IF d.v.t # "dict" THEN Raises("AttributeError")
  ELSE IF HasKey(d.v, <<"m">>) /\ DictGet(d.v, <<"m">>) = JStr(QSD) THEN price_event(d.v)
  ELSE Returns(<<>>)

(***************************************************************************)
(* _search_symbol(): the outcomes of the REST lookup.                      *)
(***************************************************************************)
NoMeta == [status |-> "none", exchange |-> <<>>, symbol |-> <<>>]

\* results[0] of the searches the model considers
SearchResults ==
  { [status |-> "ok", exchange |-> <<"b","I">>, symbol |-> <<"B","t">>],
    [status |-> "ok", exchange |-> <<"X">>, symbol |-> <<"Y">>] }

\* a result, ValueError on an empty result list, or an exception of requests
search_symbol ==
  SearchResults \cup { [status |-> "ValueError", exchange |-> <<>>, symbol |-> <<>>],
                       [status |-> "RequestException", exchange |-> <<>>, symbol |-> <<>>] }

(***************************************************************************)
(* on_open(ws).  send_fails is the number of the ws.send call that raises  *)
(* WebSocketConnectionClosedException (0: none does), meta the outcome of  *)
(* _search_symbol().  The result is the frames sent, the lookup made, and  *)
(* whether the transport is still open when the handler is left.           *)
(***************************************************************************)
\* on_open with quote_set_fields sent before quote_create_session
on_open_fields_first(sid, send_fails, meta) ==
  LET create == wrap_message(QUOTE_CREATE_SESSION, <<JStr(sid)>>)
      fields == wrap_message(QUOTE_SET_FIELDS, <<JStr(sid), JStr(LP)>>)
      full_sym == Upper(meta.exchange) \o <<":">> \o Upper(meta.symbol)
      add == wrap_message(QUOTE_ADD_SYMBOLS, <<JStr(sid), JStr(full_sym)>>)
  IN CASE send_fails = 1 -> [sent |-> <<>>, lookup |-> NoMeta, open |-> FALSE]
       [] send_fails = 2 -> [sent |-> <<fields>>, lookup |-> NoMeta, open |-> FALSE]
       [] send_fails \notin {1, 2} /\ meta.status # "ok" ->
            [sent |-> <<fields, create>>, lookup |-> meta, open |-> TRUE]
       [] send_fails = 3 /\ meta.status = "ok" ->
            [sent |-> <<fields, create>>, lookup |-> meta, open |-> FALSE]
       [] OTHER -> [sent |-> <<fields, create, add>>, lookup |-> meta, open |-> TRUE]

\* on_open that subscribes also when the lookup gave nothing
on_open_subscribes_unresolved(sid, send_fails, meta) ==
  LET create == wrap_message(QUOTE_CREATE_SESSION, <<JStr(sid)>>)
      fields == wrap_message(QUOTE_SET_FIELDS, <<JStr(sid), JStr(LP)>>)
      full_sym == Upper(meta.exchange) \o <<":">> \o Upper(meta.symbol)
      add == wrap_message(QUOTE_ADD_SYMBOLS, <<JStr(sid), JStr(full_sym)>>)
  IN CASE send_fails = 1 -> [sent |-> <<>>, lookup |-> NoMeta, open |-> FALSE]
       [] send_fails = 2 -> [sent |-> <<create>>, lookup |-> NoMeta, open |-> FALSE]
       [] send_fails = 3 -> [sent |-> <<create, fields>>, lookup |-> meta, open |-> FALSE]
       [] OTHER -> [sent |-> <<create, fields, add>>, lookup |-> meta, open |-> TRUE]

on_open(sid, send_fails, meta) ==
  LET create == wrap_message(QUOTE_CREATE_SESSION, <<JStr(sid)>>)
      fields == wrap_message(QUOTE_SET_FIELDS, <<JStr(sid), JStr(LP)>>)
      full_sym == Upper(meta.exchange) \o <<":">> \o Upper(meta.symbol)
      add == wrap_message(QUOTE_ADD_SYMBOLS, <<JStr(sid), JStr(full_sym)>>)
  IN CASE send_fails = 1 -> [sent |-> <<>>, lookup |-> NoMeta, open |-> FALSE]
       [] send_fails = 2 -> [sent |-> <<create>>, lookup |-> NoMeta, open |-> FALSE]
       [] send_fails \notin {1, 2} /\ meta.status # "ok" ->
            [sent |-> <<create, fields>>, lookup |-> meta, open |-> TRUE]
       [] send_fails = 3 /\ meta.status = "ok" ->
            [sent |-> <<create, fields>>, lookup |-> meta, open |-> FALSE]
       [] OTHER -> [sent |-> <<create, fields, add>>, lookup |-> meta, open |-> TRUE]

\* on_open left by a KeyboardInterrupt after k calls of ws.send; meta is
\* what _search_symbol() had returned by then, NoMeta when it had not
on_open_interrupted(sid, k, meta) ==
  [sent |-> SubSeq(on_open(sid, 0, meta).sent, 1, k), lookup |-> meta, open |-> FALSE]

(***************************************************************************)
(* The inbound transport messages the server is taken to send.  frames is  *)
(* what the server framed, payload by payload with the length it declared, *)
(* and raw the text that arrives.                                          *)
(***************************************************************************)
QUOTE_COMPLETED == <<"q","u","o","t","e","_","c","o","m","p","l","e","t","e","d">>
ServerSid == JStr(SID_PREFIX \o <<"x">>)
SymBT == JStr(<<"B","I",":","B","T">>)
SymXY == JStr(<<"X",":","Y">>)

\* {"n": n, "v": {"lp": lp}}
Quote(n, lp) == JDict(<<JMem(<<"n">>, n), JMem(<<"v">>, JDict(<<JMem(LP, lp)>>))>>)

\* two well-formed quote updates, with an int and with a float price
Update1 == JsonDumps(Envelope(QSD, <<ServerSid, Quote(SymBT, JInt(42))>>))
Update2 == JsonDumps(Envelope(QSD, <<ServerSid, Quote(SymXY, JFloat(<<"6",".","5">>))>>))
\* a housekeeping envelope
Completed == JsonDumps(Envelope(QUOTE_COMPLETED, <<ServerSid, SymXY>>))
\* a keep-alive token, and the heartbeat payload
KeepAlive == <<"4","2">>
Heartbeat == <<"~","h","~","1">>

\* qsd envelopes of other shapes, other JSON values, and text that is not JSON
OddPayloads ==
  { JsonDumps(Envelope(QSD, <<ServerSid, Quote(SymXY, JStr(<<"x">>))>>)),
    JsonDumps(Envelope(QSD, <<ServerSid, Quote(SymXY, JNone)>>)),
    JsonDumps(Envelope(QSD, <<ServerSid, JDict(<<JMem(<<"v">>, JDict(<<JMem(LP, JInt(7))>>))>>)>>)),
    JsonDumps(Envelope(QSD, <<ServerSid, JDict(<<JMem(<<"n">>, SymXY), JMem(<<"v">>, JDict(<<>>))>>)>>)),
    JsonDumps(Envelope(QSD, <<ServerSid, JDict(<<JMem(<<"n">>, SymXY)>>)>>)),
    JsonDumps(Envelope(QSD, <<ServerSid>>)),
    JsonDumps(Envelope(QSD, <<>>)),
    JsonDumps(JDict(<<JMem(<<"m">>, JStr(QSD))>>)),
    JsonDumps(JDict(<<JMem(<<"m">>, JStr(QSD)), JMem(<<"p">>, JStr(<<"a","b">>))>>)),
    JsonDumps(JDict(<<JMem(<<"p">>, JList(<<ServerSid, Quote(SymXY, JInt(7))>>))>>)),
    JsonDumps(JList(<<>>)),
    JsonDumps(JStr(QSD)),
    <<"{","\"","m","\"",":">> }

Payloads == {Update1, Update2, Completed, KeepAlive, Heartbeat} \cup OddPayloads

\* the payloads of the messages that coalesce several frames
BatchPayloads == {Update1, Update2, KeepAlive}

ValidFrame(payload) == [declared |-> Len(payload), payload |-> payload]

\* frames whose declared length is off by one
Mismatched ==
  { [declared |-> Len(payload) + d, payload |-> payload] :
      payload \in {Update1, Completed, KeepAlive}, d \in {-1, 1} }

RECURSIVE Wire(_)
\* ~m~<declared>~m~<payload> for each frame, one after the other
Wire(fs) ==
  IF fs = <<>> THEN <<>>
  ELSE DELIM \o IntToStr(fs[1].declared) \o DELIM \o fs[1].payload \o Wire(Tail(fs))

Framed ==
  { <<ValidFrame(payload)>> : payload \in Payloads }
    \cup { <<f>> : f \in Mismatched }
    \cup UNION { [1..n -> {ValidFrame(payload) : payload \in BatchPayloads}] : n \in 2..MaxFrames }

\* messages that are no frame at all
Unframed == { <<>>, <<" ">>, Heartbeat, <<"a","b">>, DELIM \o <<"5">> }

Inbound ==
  { [frames |-> fs, raw |-> Wire(fs)] : fs \in Framed }
    \cup { [frames |-> <<>>, raw |-> r] : r \in Unframed }

\* the messages delivered while run() loops: a quote update, a housekeeping
\* envelope, a keep-alive, and two updates in one message
Traffic ==
  { [frames |-> fs, raw |-> Wire(fs)] :
      fs \in { <<ValidFrame(Update1)>>, <<ValidFrame(Completed)>>, <<ValidFrame(KeepAlive)>>,
               <<ValidFrame(Update1), ValidFrame(Update2)>> } }

\* each of them with what on_message does with it
Deliveries ==
  { [frames |-> msg.frames, raw |-> msg.raw, result |-> on_message(msg.raw)] : msg \in Traffic }

(***************************************************************************)
(* The state of a client and of its run() loop.                            *)
(***************************************************************************)
VARIABLES
  pc,          \* where run() is: "connect", "run_forever", "sleep", or "exit"
  conn,        \* self.ws: "none", "connecting", "open", "closed"
  backoff,     \* the local backoff of run()
  session_id,  \* self.session_id
  sent,        \* the frames passed to ws.send on the current connection
  lookup,      \* the outcome of _search_symbol() on the current connection
  handled,     \* on_message has run on the current connection
  frames,      \* the frames of the last inbound message, as the server made them
  raw_msg,     \* the last inbound message
  events,      \* the price lines on_message logged for it
  raised,      \* the exception on_message left with, or "none"
  attempts,    \* history: connection attempts ended so far, up to MaxAttempts
  prevCreate,  \* history: the first frame sent on the previous connection
  prevActive,  \* history: the previous connection had been opened
  stopped,     \* history: a KeyboardInterrupt was delivered
  lookups,     \* history: calls of _search_symbol() so far, up to MaxLookups
  everActive,  \* history: some connection of this run had been opened
  unwaited,    \* history: an attempt has ended and time.sleep has not returned since
  waited,      \* history: the delay of the last time.sleep, 0 before the first
  live,        \* history: transports created by run() and not yet torn down
  step,        \* where a run of the handler or of the codec alone is
  func,        \* the method given to _wrap_message
  params,      \* the parameters given to _wrap_message
  wire,        \* the frame _wrap_message returned
  decoded      \* what the handler's decoding makes of that frame

clientVars == <<pc, conn, backoff, session_id, sent, lookup, handled, frames, raw_msg,
                events, raised, attempts, prevCreate, prevActive, stopped,
                lookups, everActive, unwaited, waited, live>>
codecVars == <<step, func, params, wire, decoded>>
vars == <<clientVars, codecVars>>

\* nothing received yet on this connection
NoMessage ==
  /\ handled' = FALSE
  /\ frames' = <<>>
  /\ raw_msg' = <<>>
  /\ events' = <<>>
  /\ raised' = "none"

CodecIdle ==
  /\ step = "idle"
  /\ func = <<>>
  /\ params = <<>>
  /\ wire = <<>>
  /\ decoded = Fail

\* __init__ and the entry of run(), before anything is sent or received
Constructed ==
  /\ pc = "connect"
  /\ conn = "none"
  /\ backoff = 1
  /\ session_id \in generate_session_id(SidLen)
  /\ sent = <<>>
  /\ lookup = NoMeta
  /\ attempts = 0
  /\ prevCreate = <<>>
  /\ prevActive = FALSE
  /\ stopped = FALSE
  /\ lookups = 0
  /\ everActive = FALSE
  /\ unwaited = FALSE
  /\ waited = 0
  /\ live = 0

NothingReceived ==
  /\ handled = FALSE
  /\ frames = <<>>
  /\ raw_msg = <<>>
  /\ events = <<>>
  /\ raised = "none"

Init == Constructed /\ NothingReceived /\ CodecIdle

\* self.ws = WebSocketApp(...); self.ws.run_forever() is entered
Connect ==
  /\ pc = "connect"
  /\ pc' = "run_forever"
  /\ conn' = "connecting"
  /\ sent' = <<>>
  /\ lookup' = NoMeta
  /\ NoMessage
  /\ live' = live + 1
  /\ UNCHANGED <<backoff, session_id, attempts, prevCreate, prevActive, stopped,
                 lookups, everActive, unwaited, waited, codecVars>>

\* the transport reports the open: the on_open callback runs
OnOpen ==
  /\ pc = "run_forever"
  /\ conn = "connecting"
  /\ \E send_fails \in 0..3, meta \in search_symbol :
       LET r == on_open(session_id, send_fails, meta) IN
       /\ sent' = r.sent
       /\ lookup' = r.lookup
       /\ conn' = IF r.open THEN "open" ELSE "closed"
       /\ lookups' = IF r.lookup = NoMeta THEN lookups ELSE Min(lookups + 1, MaxLookups)
  /\ UNCHANGED <<pc, backoff, session_id, handled, frames, raw_msg, events, raised,
                 attempts, prevCreate, prevActive, stopped,
                 everActive, unwaited, waited, live, codecVars>>

\* KeyboardInterrupt while on_open runs: the handler is left where it is,
\* and the interrupt goes up into run_forever()
OnOpenInterrupted ==
  /\ pc = "run_forever"
  /\ conn = "connecting"
  /\ \E k \in 0..2, meta \in SearchResults \cup {NoMeta} :
       /\ k < 2 => meta = NoMeta
       /\ sent' = on_open_interrupted(session_id, k, meta).sent
       /\ lookup' = meta
       /\ lookups' = IF meta = NoMeta THEN lookups ELSE Min(lookups + 1, MaxLookups)
  /\ conn' = "closed"
  /\ stopped' = TRUE
  /\ UNCHANGED <<pc, backoff, session_id, handled, frames, raw_msg, events, raised,
                 attempts, prevCreate, prevActive,
                 everActive, unwaited, waited, live, codecVars>>

\* the transport delivers one message: the on_message callback runs
OnMessage ==
  /\ pc = "run_forever"
  /\ conn = "open"
  /\ \E d \in Deliveries :
       /\ frames' = d.frames
       /\ raw_msg' = d.raw
       /\ events' = d.result.events
       /\ raised' = d.result.raised
  /\ handled' = TRUE
  /\ UNCHANGED <<pc, conn, backoff, session_id, sent, lookup,
                 attempts, prevCreate, prevActive, stopped,
                 lookups, everActive, unwaited, waited, live, codecVars>>

\* run_forever() left with its transport still open
AttemptEndsLeavesOpen ==
  /\ pc' = "sleep"
  /\ conn' = "none"
  /\ prevCreate' = IF sent = <<>> THEN <<>> ELSE sent[1]
  /\ prevActive' = (conn = "open")
  /\ everActive' = (everActive \/ conn = "open")
  /\ unwaited' = TRUE
  /\ UNCHANGED <<backoff, session_id, sent, lookup, handled, frames, raw_msg, events,
                 raised, attempts, lookups, waited, live, codecVars>>

\* what run() does when run_forever() is left
AttemptEnds ==
  /\ pc' = "sleep"
  /\ conn' = "none"
  /\ prevCreate' = IF sent = <<>> THEN <<>> ELSE sent[1]
  /\ prevActive' = (conn = "open")
  /\ everActive' = (everActive \/ conn = "open")
  /\ unwaited' = TRUE
  /\ live' = live - 1
  /\ UNCHANGED <<backoff, session_id, sent, lookup, handled, frames, raw_msg, events,
                 raised, attempts, lookups, waited, codecVars>>

\* a transport error that leaves run() instead of being caught
RunForeverFatal ==
  /\ pc = "run_forever"
  /\ pc' = "exit"
  /\ conn' = "none"
  /\ UNCHANGED <<backoff, session_id, sent, lookup, handled, frames, raw_msg, events,
                 raised, attempts, prevCreate, prevActive, stopped,
                 lookups, everActive, unwaited, waited, live, codecVars>>

\* the loop goes round without the sleep
RunForeverEndsNoWait ==
  /\ pc = "run_forever"
  /\ pc' = "connect"
  /\ conn' = "none"
  /\ prevCreate' = IF sent = <<>> THEN <<>> ELSE sent[1]
  /\ prevActive' = (conn = "open")
  /\ everActive' = (everActive \/ conn = "open")
  /\ unwaited' = TRUE
  /\ live' = live - 1
  /\ UNCHANGED <<backoff, session_id, sent, lookup, handled, frames, raw_msg, events,
                 raised, attempts, lookups, waited, stopped, codecVars>>

\* the connection fails or is closed: run_forever() returns or raises
RunForeverEnds ==
  /\ pc = "run_forever"
  /\ AttemptEnds
  /\ UNCHANGED stopped

\* the doubling without the cap
NextBackoffUncapped(b) == b * 2

\* the delay set back to the base
NextBackoffRestart(b) == 1

\* min(backoff * 2, BACKOFF_MAX)
NextBackoff(b) == Min(b * 2, BACKOFF_MAX)

\* a sleep after which the delay starts again at 1 when the connection
\* that ended had been opened
SleepResetsAfterActive ==
  /\ pc = "sleep"
  /\ pc' = "connect"
  /\ backoff' = IF prevActive THEN 1 ELSE NextBackoff(backoff)
  /\ attempts' = Min(attempts + 1, MaxAttempts)
  /\ unwaited' = FALSE
  /\ waited' = backoff
  /\ UNCHANGED <<conn, session_id, sent, lookup, handled, frames, raw_msg, events, raised,
                 prevCreate, prevActive, stopped, lookups, everActive, live, codecVars>>

\* time.sleep(backoff) returns, and the delay is doubled
Sleep ==
  /\ pc = "sleep"
  /\ pc' = "connect"
  /\ backoff' = NextBackoff(backoff)
  /\ attempts' = Min(attempts + 1, MaxAttempts)
  /\ unwaited' = FALSE
  /\ waited' = backoff
  /\ UNCHANGED <<conn, session_id, sent, lookup, handled, frames, raw_msg, events, raised,
                 prevCreate, prevActive, stopped, lookups, everActive, live, codecVars>>

\* KeyboardInterrupt reaches main(): sys.exit(0)
InterruptExits ==
  /\ pc # "exit"
  /\ pc' = "exit"
  /\ conn' = "none"
  /\ stopped' = TRUE
  /\ live' = 0
  /\ UNCHANGED <<backoff, session_id, sent, lookup, handled, frames, raw_msg, events,
                 raised, attempts, prevCreate, prevActive,
                 lookups, everActive, unwaited, waited, codecVars>>

\* KeyboardInterrupt inside run_forever(), in a release of the websocket
\* library whose run_forever() catches it and returns
InterruptReturns ==
  /\ pc = "run_forever"
  /\ AttemptEnds
  /\ stopped' = TRUE

ClientNext ==
  \/ Connect
  \/ OnOpen
  \/ OnOpenInterrupted
  \/ OnMessage
  \/ RunForeverEnds
  \/ Sleep
  \/ InterruptExits
  \/ InterruptReturns

(***************************************************************************)
(* The encoder and the handler's decoding, applied to chosen inputs.       *)
(***************************************************************************)
\* the characters a method string is made of
MethodLetters == {"a", "~", "m", "\""}

\* method strings up to MaxLen characters, and the delimiter itself
Methods == UNION {[1..n -> MethodLetters] : n \in 0..MaxLen} \cup {DELIM, QSD, <<"<e9>", "a">>}

\* parameter lists
ParamLists ==
  { <<>>, <<JStr(<<"a">>)>>, <<JStr(DELIM)>>, <<JInt(7), JNone>>, <<JStr(<<"<e9>">>)>>,
    <<JStr(SID_PREFIX \o <<"a">>), Quote(SymXY, JInt(7))>> }

CodecInit ==
  /\ step = "input"
  /\ func \in Methods
  /\ params \in ParamLists
  /\ wire = <<>>
  /\ decoded = Fail

Encode ==
  /\ step = "input"
  /\ step' = "encoded"
  /\ wire' = wrap_message(func, params)
  /\ UNCHANGED <<func, params, decoded, clientVars>>

Decode ==
  /\ step = "encoded"
  /\ step' = "decoded"
  /\ decoded' = data(wire)
  /\ UNCHANGED <<func, params, wire, clientVars>>

CodecNext == Encode \/ Decode

(***************************************************************************)
(* on_message alone, applied to every inbound message of the model.        *)
(***************************************************************************)
Received ==
  /\ step = "received"
  /\ \E msg \in Inbound :
       /\ frames = msg.frames
       /\ raw_msg = msg.raw
  /\ handled = FALSE
  /\ events = <<>>
  /\ raised = "none"
  /\ func = <<>>
  /\ params = <<>>
  /\ wire = <<>>
  /\ decoded = Fail

Handle ==
  /\ step = "received"
  /\ step' = "handled"
  /\ handled' = TRUE
  /\ events' = on_message(raw_msg).events
  /\ raised' = on_message(raw_msg).raised
  /\ UNCHANGED <<pc, conn, backoff, session_id, sent, lookup, frames, raw_msg, attempts,
                 prevCreate, prevActive, stopped, lookups, everActive, unwaited, waited, live,
                 func, params, wire, decoded>>

Next == ClientNext

Spec == Init /\ [][Next]_vars

\* time.sleep returns and the loop goes round
LiveSpec == Spec /\ WF_vars(Sleep) /\ WF_vars(Connect)

RoundTripInit == Constructed /\ NothingReceived /\ CodecInit

CodecSpec == RoundTripInit /\ [][CodecNext]_vars

HandlerInit == Constructed /\ Received

HandlerSpec == HandlerInit /\ [][Handle]_vars

(***************************************************************************)
(* Reading a frame back, as the wire format defines it:                    *)
(* ~m~<decimal length>~m~<payload>.                                        *)
(***************************************************************************)
\* where the payload of a frame starts
PayloadStart(frame) == ScanDigits(frame, Len(DELIM) + 1) + Len(DELIM)

FramePayload(frame) == From(frame, PayloadStart(frame))

\* the header is well formed and declares the length of what follows it
WellFramed(frame) ==
  /\ StartsWith(frame, DELIM)
  /\ ScanDigits(frame, Len(DELIM) + 1) > Len(DELIM) + 1
  /\ StartsWith(From(frame, ScanDigits(frame, Len(DELIM) + 1)), DELIM)
  /\ StrToInt(SubSeq(frame, Len(DELIM) + 1, ScanDigits(frame, Len(DELIM) + 1) - 1))
       = Len(FramePayload(frame))

\* the method and the parameters of the envelope a sent frame carries
Method(frame) == DictGet(JsonLoads(FramePayload(frame)).v, <<"m">>).s
Params(frame) == DictGet(JsonLoads(FramePayload(frame)).v, <<"p">>).a

SetupMethods == <<QUOTE_CREATE_SESSION, QUOTE_SET_FIELDS, QUOTE_ADD_SYMBOLS>>

HasLowercase(s) == \E i \in 1..Len(s) : \E k \in 1..26 : s[i] = LOWERCASE[k]

\* the frames sent so far on this connection are the first ones of the setup
SetupPrefix ==
  /\ Len(sent) <= 3
  /\ \A i \in 1..Len(sent) :
       /\ WellFramed(sent[i])
       /\ Method(sent[i]) = SetupMethods[i]
  /\ Len(sent) >= 1 => Params(sent[1]) = <<JStr(session_id)>>
  /\ Len(sent) >= 2 => Params(sent[2]) = <<JStr(session_id), JStr(LP)>>

\* C1: on every connection the setup frames go out in the order
\* quote_create_session([sid]), quote_set_fields([sid, "lp"]),
\* quote_add_symbols([sid, "EXCHANGE:TICKER"]), the identifier being the
\* resolved exchange and ticker in upper case; so quote_set_fields and
\* quote_add_symbols never precede quote_create_session.
C1_SetupOrder ==
  /\ SetupPrefix
  /\ Len(sent) = 3 =>
       /\ lookup.status = "ok"
       /\ Params(sent[3]) =
            <<JStr(session_id), JStr(Upper(lookup.exchange) \o <<":">> \o Upper(lookup.symbol))>>
       /\ ~HasLowercase(Params(sent[3])[2].s)

\* a reconnect on which the whole setup went out, the resolver having
\* answered in mixed case
C1_Witness ==
  /\ attempts >= 1
  /\ Len(sent) = 3
  /\ HasLowercase(lookup.exchange)
  /\ HasLowercase(lookup.symbol)

\* C2: the delay of the k-th wait is min(2^(k-1), 300): 1, 2, 4, ..., 256,
\* 300, 300, ...; the delay is always between 1 and 300.
C2_BackoffSequence ==
  /\ backoff >= 1
  /\ backoff <= BACKOFF_MAX
  /\ backoff = Min(2 ^ attempts, BACKOFF_MAX)

\* the second wait at the cap
C2_Witness == pc = "sleep" /\ attempts = MaxAttempts /\ backoff = BACKOFF_MAX

\* C3: when a connection attempt has ended and no KeyboardInterrupt was
\* delivered, run() starts another attempt; run() is left only by a
\* KeyboardInterrupt, never by a transport error.
C3_AlwaysReconnects ==
  /\ (pc = "sleep" /\ ~stopped) ~> (pc = "run_forever" \/ stopped)
  /\ [](pc = "exit" => stopped)

\* a new attempt after an opened connection was lost
C3_Witness == pc = "run_forever" /\ attempts >= 1 /\ prevActive /\ ~stopped

\* C4: after an opened connection is lost, the setup of the next
\* connection carries a session id different from the previous one.
C4_FreshSession ==
  (prevActive /\ sent # <<>>) => Params(sent[1])[1] # Params(prevCreate)[1]

\* C5: on every connection, all three setup frames are sent before an
\* inbound message of that connection is handled.
C5_SetupBeforeInbound ==
  handled => (Len(sent) = 3 /\ \A i \in 1..3 : Method(sent[i]) = SetupMethods[i])

\* the last inbound message is one valid frame holding only digits
IsKeepAlive ==
  /\ Len(frames) = 1
  /\ frames[1].declared = Len(frames[1].payload)
  /\ frames[1].payload # <<>>
  /\ \A i \in 1..Len(frames[1].payload) : IsDigit(frames[1].payload[i])

\* C6: a keep-alive frame is answered by one outbound frame that repeats
\* it, and gives no price event (here on a connection whose setup went
\* through).
C6_KeepAliveEchoed ==
  (handled /\ IsKeepAlive /\ lookup.status = "ok" /\ Len(sent) >= 3) =>
     /\ sent # <<>>
     /\ sent[Len(sent)] = raw_msg
     /\ events = <<>>

(***************************************************************************)
(* What an envelope means, as the protocol defines a quote update.         *)
(***************************************************************************)
\* env is {"m": "qsd", "p": [_, {"n": _, "v": {"lp": <number>}}, ...]}
Qualifies(env) ==
  /\ env.t = "dict"
  /\ HasKey(env, <<"m">>)
  /\ DictGet(env, <<"m">>) = JStr(QSD)
  /\ HasKey(env, <<"p">>)
  /\ DictGet(env, <<"p">>).t = "list"
  /\ Len(DictGet(env, <<"p">>).a) >= 2
  /\ LET q == DictGet(env, <<"p">>).a[2] IN
     /\ q.t = "dict"
     /\ HasKey(q, <<"n">>)
     /\ HasKey(q, <<"v">>)
     /\ DictGet(q, <<"v">>).t = "dict"
     /\ HasKey(DictGet(q, <<"v">>), LP)
     /\ DictGet(DictGet(q, <<"v">>), LP).t \in {"int", "float"}

\* the event of a qualifying envelope
EventOf(env) ==
  LET q == DictGet(env, <<"p">>).a[2]
  IN [symbol |-> DictGet(q, <<"n">>), price |-> DictGet(DictGet(q, <<"v">>), LP)]

IsUpdateFrame(f) ==
  /\ f.declared = Len(f.payload)
  /\ JsonLoads(f.payload).ok
  /\ Qualifies(JsonLoads(f.payload).v)

\* C7: a message that is N valid frames, each a quote update, gives N
\* price events, in the order of the frames.
C7_EventPerFrame ==
  (step = "handled" /\ frames # <<>> /\ \A i \in 1..Len(frames) : IsUpdateFrame(frames[i])) =>
     events = [i \in 1..Len(frames) |-> EventOf(JsonLoads(frames[i].payload).v)]

\* C8: a frame whose declared length is not the length of its payload is
\* dropped: no price event, and no exception.
C8_MismatchDiscarded ==
  (step = "handled" /\ Len(frames) = 1 /\ frames[1].declared # Len(frames[1].payload)) =>
     (events = <<>> /\ raised = "none")

\* C9: one valid frame carrying an envelope gives a price event exactly
\* when the envelope is a qsd update with a name and a numeric lp, and the
\* event then is (p[1].n, p[1].v.lp).
C9_EventIffUpdate ==
  ( /\ step = "handled"
    /\ Len(frames) = 1
    /\ frames[1].declared = Len(frames[1].payload)
    /\ JsonLoads(frames[1].payload).ok
    /\ JsonLoads(frames[1].payload).v.t = "dict" ) =>
     events = IF Qualifies(JsonLoads(frames[1].payload).v)
              THEN <<EventOf(JsonLoads(frames[1].payload).v)>>
              ELSE <<>>

\* C10: decoding the frame the encoder made of (method, params) gives the
\* one envelope {m: method, p: params}.
C10_RoundTrip ==
  step = "decoded" => (decoded.ok /\ decoded.v = Envelope(func, params))

\* C11: _search_symbol() is called at most once in the life of the
\* process, however many connections are opened.
C11_ResolvedOnce == lookups <= 1

LookupFailed == lookup.status \in {"ValueError", "RequestException"}

\* C12: when the resolution of the symbol has failed, the run is over, and
\* no connection was attempted and no frame sent.
C12_ResolutionFatal ==
  LookupFailed => (pc = "exit" /\ sent = <<>> /\ conn = "none" /\ live = 0)

\* C13: once a KeyboardInterrupt was delivered, no connection attempt is
\* started and no frame is sent any more, and the run only ends, with
\* sys.exit(0).
C13_StopIsTerminal ==
  [][stopped => /\ ~(pc = "connect" /\ pc' = "run_forever")
                /\ Len(sent') <= Len(sent)
                /\ pc' \in {pc, "sleep", "connect", "exit"}]_vars

\* a qsd envelope without p, with fewer than two parameters, or whose
\* second parameter lacks n, v or v.lp
Incomplete(env) ==
  /\ env.t = "dict"
  /\ HasKey(env, <<"m">>)
  /\ DictGet(env, <<"m">>) = JStr(QSD)
  /\ \/ ~HasKey(env, <<"p">>)
     \/ /\ DictGet(env, <<"p">>).t = "list"
        /\ Len(DictGet(env, <<"p">>).a) < 2
     \/ /\ DictGet(env, <<"p">>).t = "list"
        /\ Len(DictGet(env, <<"p">>).a) >= 2
        /\ LET q == DictGet(env, <<"p">>).a[2] IN
           /\ q.t = "dict"
           /\ \/ ~HasKey(q, <<"n">>)
              \/ ~HasKey(q, <<"v">>)
              \/ DictGet(q, <<"v">>).t = "dict" /\ ~HasKey(DictGet(q, <<"v">>), LP)

\* an envelope whose method is not qsd
OtherMethod(env) ==
  /\ env.t = "dict"
  /\ HasKey(env, <<"m">>)
  /\ DictGet(env, <<"m">>).t = "str"
  /\ DictGet(env, <<"m">>) # JStr(QSD)

\* the payload of a housekeeping or malformed frame
Skippable(payload) ==
  \/ ~JsonLoads(payload).ok
  \/ JsonLoads(payload).v.t # "dict"
  \/ OtherMethod(JsonLoads(payload).v)
  \/ Incomplete(JsonLoads(payload).v)

\* the last inbound message is one valid frame with such a payload, or has
\* fewer than two delimiters
MustBeSkipped ==
  \/ /\ Len(frames) = 1
     /\ frames[1].declared = Len(frames[1].payload)
     /\ ~StartsWith(frames[1].payload, HANDSHAKE)
     /\ Skippable(frames[1].payload)
  \/ /\ frames = <<>>
     /\ Len(Split(raw_msg, DELIM)) < 3

\* C14: a message with an unrecognized method, invalid JSON, JSON that is
\* not an object, a qsd envelope with missing keys or too few parameters,
\* or fewer than two delimiters gives no price event and no exception.
C14_NeverFails ==
  (step = "handled" /\ MustBeSkipped) => (events = <<>> /\ raised = "none")

\* C15 as claimed: after the end of a connection that had been opened, the
\* wait before the next attempt is 1 second.
C15_RestartsAtBase == (pc = "sleep" /\ prevActive) => backoff = 1

\* C15 as amended: after the end of a connection that had been opened, the
\* delay is not set back: the wait before the next attempt is
\* min(2^(k-1), 300) seconds when this is the k-th end of an attempt, and
\* 1 second only when no attempt had ended before.
C15_KeepsDelay ==
  (pc = "sleep" /\ prevActive) =>
     /\ backoff = Min(2 ^ attempts, BACKOFF_MAX)
     /\ backoff = 1 <=> attempts = 0

\* the third end of an attempt, of a connection that had been opened
C15_Witness == pc = "sleep" /\ prevActive /\ attempts = 2 /\ backoff = 4

\* C16: an opened connection does not set the delay back: the delay never
\* decreases, and after the k-th end of an attempt it is min(2^(k-1), 300)
\* also when an earlier attempt had reached the open state.
C16_NoReset ==
  /\ [][backoff' >= backoff]_vars
  /\ []((pc = "sleep" /\ everActive) => backoff = Min(2 ^ attempts, BACKOFF_MAX))

\* a wait at the cap, after a failed attempt that followed an opened one
C16_Witness ==
  pc = "sleep" /\ everActive /\ ~prevActive /\ attempts >= 1 /\ backoff = BACKOFF_MAX

\* C17: an attempt starts only when time.sleep has returned since the
\* last attempt ended; the sleep lasted the delay of that moment, and
\* the first attempt starts without a sleep.
C17_WaitBetweenAttempts ==
  pc \in {"connect", "run_forever"} =>
     /\ ~unwaited
     /\ waited = IF attempts = 0 THEN 0 ELSE Min(2 ^ (attempts - 1), BACKOFF_MAX)

\* the third attempt, after a sleep of 2 seconds
C17_Witness == pc = "run_forever" /\ attempts = 2 /\ waited = 2 /\ ~unwaited

\* C18: at most one transport is open at a time, and run() creates one
\* only when the previous one is gone.
C18_OneConnection ==
  /\ live <= 1
  /\ pc \in {"connect", "sleep"} => live = 0
  /\ conn \in {"connecting", "open"} => live = 1

\* a second connection, opened after the first one ended
C18_Witness == conn = "open" /\ live = 1 /\ attempts >= 1 /\ everActive

\* the number of bytes of a text in UTF-8: U+00E9 takes two
RECURSIVE Utf8Len(_)
Utf8Len(s) ==
  IF s = <<>> THEN 0 ELSE (IF s[1] \in {"<e9>", "<u>"} THEN 2 ELSE 1) + Utf8Len(Tail(s))

NonAscii(s) == \E i \in 1..Len(s) : s[i] = "<e9>"

\* the digits between the two delimiters of a frame
DeclaredText(frame) == SubSeq(frame, Len(DELIM) + 1, ScanDigits(frame, Len(DELIM) + 1) - 1)

\* C19: a frame of the encoder is ~m~<len>~m~<payload>: <len> is a decimal
\* number without leading zeros, equal to the number of bytes of <payload>,
\* and <payload> is JSON without whitespace for the object with the key m,
\* then the key p, holding the method and the parameters.
C19_FrameForm ==
  step \in {"encoded", "decoded"} =>
     /\ StartsWith(wire, DELIM)
     /\ DeclaredText(wire) # <<>>
     /\ DeclaredText(wire)[1] = "0" => Len(DeclaredText(wire)) = 1
     /\ StartsWith(From(wire, Len(DELIM) + 1 + Len(DeclaredText(wire))), DELIM)
     /\ StrToInt(DeclaredText(wire)) = Utf8Len(FramePayload(wire))
     /\ \A i \in 1..Len(FramePayload(wire)) : FramePayload(wire)[i] \notin JSON_WS
     /\ JsonLoads(FramePayload(wire)).ok
     /\ JsonLoads(FramePayload(wire)).v =
          JDict(<<JMem(<<"m">>, JStr(func)), JMem(<<"p">>, JList(params))>>)

\* a frame made of a method and a parameter that hold U+00E9
C19_Witness ==
  /\ step = "encoded"
  /\ NonAscii(func)
  /\ params # <<>>
  /\ NonAscii(params[1].s)
  /\ ~NonAscii(wire)

\* C20: when the lookup made in on_open has failed, exactly
\* quote_create_session and quote_set_fields were sent on the connection,
\* and quote_add_symbols is found on a connection only when the lookup
\* made on it succeeded.
C20_FailedLookupSendsTwo ==
  /\ LookupFailed =>
       /\ Len(sent) = 2
       /\ Method(sent[1]) = QUOTE_CREATE_SESSION
       /\ Method(sent[2]) = QUOTE_SET_FIELDS
  /\ (\E i \in 1..Len(sent) : Method(sent[i]) = QUOTE_ADD_SYMBOLS) => lookup.status = "ok"

\* a connection that stays open after a failed lookup and handles a message
C20_Witness == LookupFailed /\ conn = "open" /\ handled /\ Len(sent) = 2

====
